---- MODULE Spec2Model ----
(***************************************************************************)
(* Model of the ICBHI lung-sound pipeline: src/utils/tools.py (segment     *)
(* extraction, mel-spectrogram rendering, class balancing, mixup, ICBHI    *)
(* metrics) and src/train.py (cache handling of the training driver).      *)
(*                                                                         *)
(* Floating point values are modelled as exact fractions <<n, d>>; the     *)
(* fraction <<0, 0>> is the value numpy/tensorflow produce for 0/0 (NaN).  *)
(* Python indices are kept 0-based as values; TLA+ sequences are 1-based,  *)
(* so a[k] of the source is a[k + 1] here.                                 *)
(***************************************************************************)
EXTENDS Integers, Sequences, FiniteSets

\* ------------------------------------------------------------------ bounds
MaxPool == 4

\* longest segment (in samples), largest n_mels and largest initial hop tried
MaxSegLen == 8

MaxMels == 3

MaxHop == 3

\* largest number of samples handed to a metric
MaxSamples == 4

\* most annotation rows of one recording, longest recording (in samples) and
\* the sample rate (in samples per second) librosa.load is asked for
MaxAnn == 2

MaxRecLen == 7

Rate == 3

\* most entries one cache file of train holds
MaxSegs == 2

\* most annotated segments of one class in the recordings of args.data_dir
MaxPerClass == 3

\* longest pool handed to two_permutation_data when whole blocks are followed
MaxAlignPool == 6

\* create_stft: longest segment (in samples), largest frame_length, largest
\* initial frame_step and largest fft_length tried
MaxStftLen == 8

MaxFrameLength == 3

MaxFrameStep == 6

MaxFftLength == 4

\* length of a label vector: to_onehot(x, num=4)
num == 4

\* the pairs (gamma_1_sample, gamma_2_sample) tf.random.gamma may draw for one
\* sample (both positive: the support of the Gamma distribution)
GammaDraws == {<<1, 3>>, <<2, 1>>}

\* batch_size_range arguments of mix_up that are tried
BatchSizeRanges == {<<1>>, <<2>>, <<2, 3>>, <<9>>, <<9, 2>>}

\* ------------------------------------------------------------ float helpers
Flt(x) == <<x, 1>>

FEq(a, b) == a[1] * b[2] = b[1] * a[2]

FAdd(a, b) == <<a[1] * b[2] + b[1] * a[2], a[2] * b[2]>>

FSub(a, b) == <<a[1] * b[2] - b[1] * a[2], a[2] * b[2]>>

FMul(a, b) == <<a[1] * b[1], a[2] * b[2]>>

\* a / b of two floats; 0/0 is NaN = <<0, 0>>
FDiv(a, b) == <<a[1] * b[2], a[2] * b[1]>>

FIsNaN(a) == a[2] = 0

\* 0 <= a <= 1, false of NaN
FInUnit(a) ==
    /\ a[2] # 0
    /\ IF a[2] > 0 THEN 0 <= a[1] /\ a[1] <= a[2] ELSE 0 >= a[1] /\ a[1] >= a[2]

Range(s) == {s[k] : k \in 1..Len(s)}

MinOf(S) == CHOOSE x \in S : \A y \in S : x <= y

MaxOf(S) == CHOOSE x \in S : \A y \in S : x >= y

\* s[a:b] of Python for 0 <= a, b (clamped to len, empty when a >= b)
PySlice(s, a, b) ==
    LET lo == IF a > Len(s) THEN Len(s) ELSE a
        hi == IF b > Len(s) THEN Len(s) ELSE b
    IN  IF lo >= hi THEN <<>> ELSE [k \in 1..(hi - lo) |-> s[lo + k]]

\* all orderings of the entries of a sequence of distinct values
SeqPermutations(s) ==
    {p \in [1..Len(s) -> Range(s)] : \A a, b \in 1..Len(s) : p[a] = p[b] => a = b}

\* --------------------------------------------------------------- variables
VARIABLES
    entry,            \* which function was called: "two_permutation_data" | "mix_up"
    ds,               \* the input pool (data_1, data_2, label)
    have_normal,      \* argument have_normal
    np_legacy,        \* numpy < 1.25: a shape-mismatched == is False, not an error
    bpc,              \* position in two_permutation_data / mix_up
    err,              \* the exception raised, "" if none
    label_idx_1,      \* dict class -> indices, in insertion order
    label_idx_2,      \* the same dict in shuffled key order
    min_,             \* the smallest class size
    vi,               \* position of the loop over dict values
    ds_one,           \* view 1 (data_1_one, data_2_one, labels_one)
    ds_two,           \* view 2
    batch_size_range, \* argument batch_size_range of mix_up
    round,            \* idx of the loop over batch_size_range (0-based)
    bi,               \* i of the loop over range(num)
    out,              \* (images_org, ffts_org, labels_org)
    l_hist,           \* every lambda drawn, in the order of the appended samples
    \* create_spectrograms_raw
    current_window,   \* the segment: its length and whether every sample is 0
    n_mels,           \* argument n_mels
    hop,              \* argument hop, changed by the search loop
    rpc,              \* position in create_spectrograms_raw
    wh,               \* w, h = S.shape
    S,                \* S after power_to_db (line 128), <<>> before
    img,              \* the array returned: its shape and its values
    \* sensitivity, specificity, average_score, harmonic_mean
    y_true,           \* argument y_true: one label vector per sample
    y_pred,           \* argument y_pred: one score vector per sample
    test,             \* argument test
    metric,           \* the function that was called, "" before the call
    result,           \* what it returned, or the exception it raised
    \* get_sound_samples
    labels_data,      \* dict label -> list of audio chunks
    labels_before,    \* labels_data as it was when the call began
    annotations,      \* argument annotations of the call
    data,             \* the samples librosa.load returned
    calls,            \* number of calls made
    \* train
    tpc,              \* position in train
    save_data_dir,    \* args.save_data_dir
    files,            \* the files present in save_data_dir: name -> entries held
    data_dir,         \* args.data_dir: does it exist, segments per class 0..3
    pools,            \* lengths of test_data, test_label, train_data, train_label
    image_pools,      \* lengths of image_test_data and image_train_data
    loads,            \* the files load_df was called on, in order
    rendered,         \* number of create_spectrograms_raw calls
    terr,             \* the exception train ended with, "" if none
    tline,            \* the line of train.py that raised it, 0 if none
    \* create_stft
    stft_window,      \* the segment: its length
    frame_length,     \* argument frame_length
    frame_step,       \* argument frame_step, changed by the search loop
    fft_length,       \* argument fft_length
    spc,              \* position in create_stft
    stft_wh,          \* w, h = S.shape
    stft_calls,       \* the frame_step of every tf.signal.stft call, in order
    stft_img          \* the shape of the array returned, <<>> before

augVars == <<entry, ds, have_normal, np_legacy, bpc, err, label_idx_1, label_idx_2,
             min_, vi, ds_one, ds_two, batch_size_range, round, bi, out, l_hist>>

renVars == <<current_window, n_mels, hop, rpc, wh, S, img>>

metVars == <<y_true, y_pred, test, metric, result>>

segVars == <<labels_data, labels_before, annotations, data, calls>>

trnVars == <<tpc, save_data_dir, files, data_dir, pools, image_pools, loads, rendered,
             terr, tline>>

stfVars == <<stft_window, frame_length, frame_step, fft_length, spc, stft_wh,
             stft_calls, stft_img>>

vars == <<augVars, renVars, metVars, segVars, trnVars, stfVars>>

\* everything the class balancer and mix_up leave alone
nonAugVars == <<renVars, metVars, segVars, trnVars, stfVars>>

\* everything the renderer leaves alone
nonRenVars == <<augVars, metVars, segVars, trnVars, stfVars>>

\* everything the metrics leave alone
nonMetVars == <<augVars, renVars, segVars, trnVars, stfVars>>

\* everything get_sound_samples leaves alone
nonSegVars == <<augVars, renVars, metVars, trnVars, stfVars>>

\* everything train leaves alone
nonTrnVars == <<augVars, renVars, metVars, segVars, stfVars>>

\* everything create_stft leaves alone
nonStfVars == <<augVars, renVars, metVars, segVars, trnVars>>

\* the renderer before any call
IdleRender ==
    /\ current_window = [len |-> 0, all_zero |-> TRUE]
    /\ n_mels = 0
    /\ hop = 0
    /\ rpc = "idle"
    /\ wh = <<0, 0>>
    /\ S = <<>>
    /\ img = [shape |-> <<>>, px |-> <<>>]

\* the metrics before any call
IdleMetrics ==
    /\ y_true = <<>>
    /\ y_pred = <<>>
    /\ test = FALSE
    /\ metric = "idle"
    /\ result = [raised |-> "", val |-> <<0, 1>>]

\* get_sound_samples before any call
IdleSegments ==
    /\ labels_data = <<>>
    /\ labels_before = <<>>
    /\ annotations = <<>>
    /\ data = <<>>
    /\ calls = 0

\* train before any call
IdleTrain ==
    /\ tpc = "idle"
    /\ save_data_dir = ""
    /\ files = <<>>
    /\ data_dir = [exists |-> FALSE, counts |-> <<0, 0, 0, 0>>]
    /\ pools = <<>>
    /\ image_pools = <<>>
    /\ loads = <<>>
    /\ rendered = 0
    /\ terr = ""
    /\ tline = 0

\* create_stft before any call
IdleStft ==
    /\ stft_window = 0
    /\ frame_length = 0
    /\ frame_step = 0
    /\ fft_length = 0
    /\ spc = "idle"
    /\ stft_wh = <<0, 0>>
    /\ stft_calls = <<>>
    /\ stft_img = <<>>

\* ------------------------------------------------------------- to_onehot
to_onehot(x) == [j \in 1..num |-> IF j = x + 1 THEN Flt(1) ELSE Flt(0)]

\* list.index(1) of one label row (0-based); -1 stands for ValueError
IndexOfOne(row) ==
    IF \E j \in 1..Len(row) : FEq(row[j], Flt(1))
    THEN (CHOOSE j \in 1..Len(row) :
            /\ FEq(row[j], Flt(1))
            /\ \A m \in 1..(j - 1) : ~FEq(row[m], Flt(1))) - 1
    ELSE -1

onehot_to(labels) == [k \in 1..Len(labels) |-> IndexOfOne(labels[k])]

\* the pool whose k-th sample (0-based) has class cls[k + 1]; the two data
\* arrays carry distinct values so that a sample can be told from its value
PoolOf(cls) ==
    [data_1 |-> [k \in 1..Len(cls) |-> Flt(k - 1)],
     data_2 |-> [k \in 1..Len(cls) |-> Flt(k - 1 + Len(cls))],
     label  |-> [k \in 1..Len(cls) |-> to_onehot(cls[k])]]

ClassSeqs(n) == UNION {[1..m -> 0..(num - 1)] : m \in 1..n}

\* ------------------------------------------------- two_permutation_data
\* the participating classes, in the insertion order of the dict literal
DictKeys(hn) == IF hn THEN <<0, 1, 2, 3>> ELSE <<1, 2, 3>>

\* the indices idx (0-based, ascending) whose class is c
IndicesOf(number_label, c) ==
    SelectSeq([k \in 1..Len(number_label) |-> k - 1],
              LAMBDA idx : number_label[idx + 1] = c)

\* label_idx_1 after the loop of lines 269..274
BuildLabelIdx(number_label, hn) ==
    [p \in 1..Len(DictKeys(hn)) |->
        [key |-> DictKeys(hn)[p], idx |-> IndicesOf(number_label, DictKeys(hn)[p])]]

\* np.min(all_len), lines 277..280
MinLen(lidx) == MinOf({Len(lidx[p].idx) : p \in 1..Len(lidx)})

\* np.random.permutation(list(i)): any ordering; the array of an empty list
\* has dtype float64, any other dtype int
RandomPermutations(idx) ==
    {[dtype |-> IF Len(idx) = 0 THEN "float64" ELSE "int", vals |-> p] :
        p \in SeqPermutations(idx)}

\* x == [] as the if of lines 285..321 sees it: a list equals [] when it is
\* empty; an ndarray against [] does not broadcast, which numpy < 1.25
\* answers with False (and a warning) and later versions with ValueError
EqEmptyList(acc, legacy) ==
    IF acc.kind = "list" THEN (IF acc.rows = <<>> THEN "True" ELSE "False")
    ELSE IF legacy THEN "False" ELSE "ValueError"

\* arr[i[:m]]: fancy indexing, IndexError for an index array of dtype float
FancyIndex(arr, i, m) ==
    LET take == PySlice(i.vals, 0, m)
    IN  [k \in 1..Len(take) |-> arr[take[k] + 1]]

\* x = arr[...] or x = np.concatenate((x, arr[...]))
Accumulate(acc, rows, legacy) ==
    IF EqEmptyList(acc, legacy) = "True"
    THEN [kind |-> "ndarray", rows |-> rows]
    ELSE [kind |-> "ndarray", rows |-> acc.rows \o rows]

\* the exception one iteration of lines 284..298 (306..321) raises, "" if none
IterationError(view, i, legacy) ==
    IF EqEmptyList(view.labels, legacy) = "ValueError" THEN "ValueError"
    ELSE IF i.dtype # "int" THEN "IndexError"
    ELSE ""

\* a loop body that indexes data_2 with the permutation read backwards
ViewIteration_data_2_reversed(view, pool, i, m, legacy) ==
    LET r == [dtype |-> i.dtype,
              vals |-> [k \in 1..Len(i.vals) |-> i.vals[Len(i.vals) + 1 - k]]]
    IN  [labels |-> Accumulate(view.labels, FancyIndex(pool.label, i, m), legacy),
         data_1 |-> Accumulate(view.data_1, FancyIndex(pool.data_1, i, m), legacy),
         data_2 |-> Accumulate(view.data_2, FancyIndex(pool.data_2, r, m), legacy)]

\* one iteration of the loop body of lines 284..298 (306..321)
ViewIteration(view, pool, i, m, legacy) ==
    [labels |-> Accumulate(view.labels, FancyIndex(pool.label, i, m), legacy),
     data_1 |-> Accumulate(view.data_1, FancyIndex(pool.data_1, i, m), legacy),
     data_2 |-> Accumulate(view.data_2, FancyIndex(pool.data_2, i, m), legacy)]

EmptyList == [kind |-> "list", rows |-> <<>>]

EmptyView == [labels |-> EmptyList, data_1 |-> EmptyList, data_2 |-> EmptyList]

NoOut == [images |-> <<>>, ffts |-> <<>>, labels |-> <<>>]

mixVarsUnch == UNCHANGED <<batch_size_range, round, bi, out, l_hist>>

\* lines 254..280: unpack, class indices, shortest class
TPD_Begin ==
    /\ UNCHANGED nonAugVars
    /\ bpc = "call"
    /\ label_idx_1' = BuildLabelIdx(onehot_to(ds.label), have_normal)
    /\ min_' = MinLen(label_idx_1')
    /\ vi' = 1
    /\ bpc' = "view1"
    /\ mixVarsUnch
    /\ UNCHANGED <<entry, ds, have_normal, np_legacy, err, label_idx_2, ds_one, ds_two>>

\* lines 283..298: one class of view 1
TPD_View1Step ==
    /\ UNCHANGED nonAugVars
    /\ bpc = "view1"
    /\ vi <= Len(label_idx_1)
    /\ \E i \in RandomPermutations(label_idx_1[vi].idx) :
         LET e == IterationError(ds_one, i, np_legacy)
         IN  IF e # ""
             THEN /\ bpc' = "raised"
                  /\ err' = e
                  /\ UNCHANGED <<ds_one, vi>>
             ELSE /\ ds_one' = ViewIteration(ds_one, ds, i, min_, np_legacy)
                  /\ vi' = vi + 1
                  /\ UNCHANGED <<bpc, err>>
    /\ mixVarsUnch
    /\ UNCHANGED <<entry, ds, have_normal, np_legacy, label_idx_1, label_idx_2, min_, ds_two>>

\* lines 301..304: the dict rebuilt in a shuffled key order
TPD_ShuffleKeys ==
    /\ UNCHANGED nonAugVars
    /\ bpc = "view1"
    /\ vi > Len(label_idx_1)
    /\ \E label_2 \in SeqPermutations([p \in 1..Len(label_idx_1) |-> p]) :
         label_idx_2' = [p \in 1..Len(label_2) |-> label_idx_1[label_2[p]]]
    /\ vi' = 1
    /\ bpc' = "view2"
    /\ mixVarsUnch
    /\ UNCHANGED <<entry, ds, have_normal, np_legacy, err, label_idx_1, min_, ds_one, ds_two>>

\* lines 306..321: one class of view 2
TPD_View2Step ==
    /\ UNCHANGED nonAugVars
    /\ bpc = "view2"
    /\ vi <= Len(label_idx_2)
    /\ \E i \in RandomPermutations(label_idx_2[vi].idx) :
         LET e == IterationError(ds_two, i, np_legacy)
         IN  IF e # ""
             THEN /\ bpc' = "raised"
                  /\ err' = e
                  /\ UNCHANGED <<ds_two, vi>>
             ELSE /\ ds_two' = ViewIteration(ds_two, ds, i, min_, np_legacy)
                  /\ vi' = vi + 1
                  /\ UNCHANGED <<bpc, err>>
    /\ mixVarsUnch
    /\ UNCHANGED <<entry, ds, have_normal, np_legacy, label_idx_1, label_idx_2, min_, ds_one>>

\* lines 323..325: return the two views (to the caller, or into mix_up line 330)
TPD_Return ==
    /\ UNCHANGED nonAugVars
    /\ bpc = "view2"
    /\ vi > Len(label_idx_2)
    /\ IF entry = "mix_up"
       THEN /\ bpc' = "mix"
            /\ round' = 0
            /\ bi' = 0
            /\ out' = [images |-> ds.data_1, ffts |-> ds.data_2, labels |-> ds.label]
       ELSE /\ bpc' = "returned"
            /\ UNCHANGED <<round, bi, out>>
    /\ UNCHANGED <<entry, ds, have_normal, np_legacy, err, label_idx_1, label_idx_2,
                   min_, vi, ds_one, ds_two, batch_size_range, l_hist>>

InitBalance ==
    /\ IdleRender
    /\ IdleMetrics
    /\ IdleSegments
    /\ IdleTrain
    /\ IdleStft
    /\ entry = "two_permutation_data"
    /\ \E cls \in ClassSeqs(MaxPool) : ds = PoolOf(cls)
    /\ have_normal \in BOOLEAN
    /\ np_legacy \in BOOLEAN
    /\ bpc = "call"
    /\ err = ""
    /\ label_idx_1 = <<>>
    /\ label_idx_2 = <<>>
    /\ min_ = 0
    /\ vi = 0
    /\ ds_one = EmptyView
    /\ ds_two = EmptyView
    /\ batch_size_range = <<>>
    /\ round = 0
    /\ bi = 0
    /\ out = NoOut
    /\ l_hist = <<>>

NextBalance ==
    \/ TPD_Begin
    \/ TPD_View1Step
    \/ TPD_ShuffleKeys
    \/ TPD_View2Step
    \/ TPD_Return

SpecBalance == InitBalance /\ [][NextBalance]_vars

\* ------------------------------------------------------------------ mix_up
\* a slip that divides by gamma_2 alone
sample_beta_distribution_ratio(g) ==
    [k \in 1..Len(g) |-> FDiv(Flt(g[k][1]), Flt(g[k][2]))]

\* lines 241..244: gamma_1 / (gamma_1 + gamma_2), one entry per sample
sample_beta_distribution(g) ==
    [k \in 1..Len(g) |-> FDiv(Flt(g[k][1]), FAdd(Flt(g[k][1]), Flt(g[k][2])))]

\* line 335: num = int(len(labels_one) / batch_size)
NumBatches(view, batch_size) == Len(view.labels.rows) \div batch_size

\* one_batch * x + two_batch * (1 - x), lines 357..358; x is l reshaped
MixData(one_batch, two_batch, l) ==
    [k \in 1..Len(one_batch) |->
        FAdd(FMul(one_batch[k], l[k]), FMul(two_batch[k], FSub(Flt(1), l[k])))]

\* labels_one_batch * y_l + labels_two_batch * (1 - y_l), line 359
MixLabels(one_batch, two_batch, l) ==
    [k \in 1..Len(one_batch) |->
        [c \in 1..Len(one_batch[k]) |->
            FAdd(FMul(one_batch[k][c], l[k]),
                 FMul(two_batch[k][c], FSub(Flt(1), l[k])))]]

\* lines 336..363: one batch of one round
MixBatch ==
    /\ UNCHANGED nonAugVars
    /\ bpc = "mix"
    /\ round < Len(batch_size_range)
    /\ LET batch_size == batch_size_range[round + 1]
           lo == bi * batch_size
           hi == (bi + 1) * batch_size
       IN  /\ bi < NumBatches(ds_one, batch_size)
           /\ \E g \in [1..batch_size -> GammaDraws] :
                LET l == sample_beta_distribution(g)
                    images == MixData(PySlice(ds_one.data_1.rows, lo, hi),
                                      PySlice(ds_two.data_1.rows, lo, hi), l)
                    ffts   == MixData(PySlice(ds_one.data_2.rows, lo, hi),
                                      PySlice(ds_two.data_2.rows, lo, hi), l)
                    labels == MixLabels(PySlice(ds_one.labels.rows, lo, hi),
                                        PySlice(ds_two.labels.rows, lo, hi), l)
                IN  /\ out' = [images |-> out.images \o images,
                               ffts   |-> out.ffts \o ffts,
                               labels |-> out.labels \o labels]
                    /\ l_hist' = l_hist \o l
    /\ bi' = bi + 1
    /\ UNCHANGED <<entry, ds, have_normal, np_legacy, bpc, err, label_idx_1, label_idx_2,
                   min_, vi, ds_one, ds_two, batch_size_range, round>>

\* line 334: the next entry of batch_size_range once range(num) is exhausted
MixNextRound ==
    /\ UNCHANGED nonAugVars
    /\ bpc = "mix"
    /\ round < Len(batch_size_range)
    /\ bi >= NumBatches(ds_one, batch_size_range[round + 1])
    /\ round' = round + 1
    /\ bi' = 0
    /\ UNCHANGED <<entry, ds, have_normal, np_legacy, bpc, err, label_idx_1, label_idx_2,
                   min_, vi, ds_one, ds_two, batch_size_range, out, l_hist>>

\* line 364
MixReturn ==
    /\ UNCHANGED nonAugVars
    /\ bpc = "mix"
    /\ round >= Len(batch_size_range)
    /\ bpc' = "returned"
    /\ UNCHANGED <<entry, ds, have_normal, np_legacy, err, label_idx_1, label_idx_2,
                   min_, vi, ds_one, ds_two, batch_size_range, round, bi, out, l_hist>>

\* pools as train.py builds them: class after class, lines 58..77
SortedClassSeqs(n) ==
    {cls \in ClassSeqs(n) : \A a, b \in 1..Len(cls) : a <= b => cls[a] <= cls[b]}

InitMixup ==
    /\ IdleRender
    /\ IdleMetrics
    /\ IdleSegments
    /\ IdleTrain
    /\ IdleStft
    /\ entry = "mix_up"
    /\ \E cls \in SortedClassSeqs(MaxPool) : ds = PoolOf(cls)
    /\ have_normal \in BOOLEAN
    /\ np_legacy \in BOOLEAN
    /\ batch_size_range \in BatchSizeRanges
    /\ bpc = "call"
    /\ err = ""
    /\ label_idx_1 = <<>>
    /\ label_idx_2 = <<>>
    /\ min_ = 0
    /\ vi = 0
    /\ ds_one = EmptyView
    /\ ds_two = EmptyView
    /\ round = 0
    /\ bi = 0
    /\ out = NoOut
    /\ l_hist = <<>>

NextMixup ==
    \/ TPD_Begin
    \/ TPD_View1Step
    \/ TPD_ShuffleKeys
    \/ TPD_View2Step
    \/ TPD_Return
    \/ MixBatch
    \/ MixNextRound
    \/ MixReturn

SpecMixup == InitMixup /\ [][NextMixup]_vars

\* ======================================================== claims C1 .. C3
\* the class of pool sample k (0-based), read off the one-hot input label
SampleClass(k) == CHOOSE c \in 0..(num - 1) : ds.label[k + 1][c + 1] = <<1, 1>>

Participating == IF have_normal THEN 0..3 ELSE 1..3

ClassSize(c) == Cardinality({k \in 0..(Len(ds.label) - 1) : SampleClass(k) = c})

MinCount == MinOf({ClassSize(c) : c \in Participating})

\* one returned view is balanced as C1 describes
ViewBalanced(view) ==
    /\ Len(view.labels.rows) = MinCount * Cardinality(Participating)
    /\ Len(view.data_1.rows) = Len(view.labels.rows)
    /\ Len(view.data_2.rows) = Len(view.labels.rows)
    /\ \A c \in Participating :
         Cardinality({p \in 1..Len(view.labels.rows) :
                        view.labels.rows[p] = to_onehot(c)}) = MinCount
    /\ \A p, q \in 1..Len(view.data_1.rows) :
         view.data_1.rows[p] = view.data_1.rows[q] => p = q
    /\ ~have_normal =>
         \A p \in 1..Len(view.labels.rows) : view.labels.rows[p] # to_onehot(0)

\* two_permutation_data has returned and both views are balanced
ReturnedViewsBalanced ==
    bpc = "returned" => ViewBalanced(ds_one) /\ ViewBalanced(ds_two)

\* C1: for every one-hot pool and either have_normal, two_permutation_data
\* returns (it does not raise) two views of length min_count * (number of
\* participating classes), each class contributing exactly min_count samples,
\* no pool index twice in a view, no class 0 when have_normal is false.
C1_ViewsBalancedForEveryPool ==
    /\ bpc # "raised"
    /\ ReturnedViewsBalanced

\* sum over the rounds r >= from of floor(B / bs_r) * bs_r
RECURSIVE MixedFrom(_, _, _)
MixedFrom(bsr, B, from) ==
    IF from > Len(bsr) THEN 0
    ELSE (B \div bsr[from]) * bsr[from] + MixedFrom(bsr, B, from + 1)

\* the pool mix_up returned has the length and the prefix C2 describes
MixUpOutputShape ==
    LET N == Len(ds.label)
        B == MinCount * Cardinality(Participating)
        total == N + MixedFrom(batch_size_range, B, 1)
    IN  /\ Len(out.labels) = total
        /\ Len(out.images) = total
        /\ Len(out.ffts) = total
        /\ \A k \in 1..N :
             /\ out.labels[k] = ds.label[k]
             /\ out.images[k] = ds.data_1[k]
             /\ out.ffts[k] = ds.data_2[k]
        /\ (\A r \in 1..Len(batch_size_range) : B < batch_size_range[r]) =>
             out = [images |-> ds.data_1, ffts |-> ds.data_2, labels |-> ds.label]

\* C2: for every input pool of length N and every list of round batch sizes,
\* mix_up returns (it does not raise) a pool of length N + sum_r
\* floor(B / bs_r) * bs_r whose first N entries are the input pool; when
\* B < bs_r in every round the output equals the input.
C2_MixUpLengthForEveryPool ==
    /\ bpc # "raised"
    /\ bpc = "returned" => MixUpOutputShape

\* the (1-based) position in the balanced views of the j-th appended sample
RECURSIVE SourcePos(_, _)
SourcePos(j, r) ==
    LET n == (Len(ds_one.labels.rows) \div batch_size_range[r]) * batch_size_range[r]
    IN  IF j <= n THEN j ELSE SourcePos(j - n, r + 1)

\* lam * a + (1 - lam) * b over the common denominator
Convex(lam, a, b) ==
    <<lam[1] * a[1] * b[2] + (lam[2] - lam[1]) * b[1] * a[2], lam[2] * a[2] * b[2]>>

RECURSIVE SumF(_, _)
SumF(row, c) == IF c = 0 THEN Flt(0) ELSE FAdd(SumF(row, c - 1), row[c])

\* C3: every synthesized sample j is the convex combination, with one lambda
\* in [0,1] shared by image, auxiliary representation and label, of the
\* entries at the same position of the two balanced views; its label has all
\* components in [0,1] and they sum to 1.
C3_SynthesizedAreConvex ==
    bpc \in {"mix", "returned"} =>
      LET N == Len(ds.label)
      IN  /\ Len(l_hist) = Len(out.labels) - N
          /\ \A j \in 1..(Len(out.labels) - N) :
               LET lam == l_hist[j]
                   k == SourcePos(j, 1)
               IN  /\ FInUnit(lam)
                   /\ \A c \in 1..num :
                        /\ FEq(out.labels[N + j][c],
                               Convex(lam, ds_one.labels.rows[k][c],
                                           ds_two.labels.rows[k][c]))
                        /\ FInUnit(out.labels[N + j][c])
                   /\ FEq(SumF(out.labels[N + j], num), Flt(1))
                   /\ FEq(out.images[N + j],
                          Convex(lam, ds_one.data_1.rows[k], ds_two.data_1.rows[k]))
                   /\ FEq(out.ffts[N + j],
                          Convex(lam, ds_one.data_2.rows[k], ds_two.data_2.rows[k]))

\* mix_up returned after two rounds that both mixed, with two different
\* lambdas and a label that is no longer one-hot
C3_Witness ==
    /\ bpc = "returned"
    /\ entry = "mix_up"
    /\ Len(batch_size_range) = 2
    /\ Len(out.labels) > Len(ds.label) + 2
    /\ \E a, b \in 1..Len(l_hist) : ~FEq(l_hist[a], l_hist[b])
    /\ \E j \in (Len(ds.label) + 1)..Len(out.labels) :
         \E c \in 1..num :
           /\ ~FEq(out.labels[j][c], Flt(0))
           /\ ~FEq(out.labels[j][c], Flt(1))

\* ================================================ create_spectrograms_raw
\* the class balancer and mix_up before any call
IdleAugCall ==
    /\ entry = "none"
    /\ ds = [data_1 |-> <<>>, data_2 |-> <<>>, label |-> <<>>]
    /\ have_normal = FALSE
    /\ bpc = "idle"
    /\ err = ""
    /\ label_idx_1 = <<>>
    /\ label_idx_2 = <<>>
    /\ min_ = 0
    /\ vi = 0
    /\ ds_one = EmptyView
    /\ ds_two = EmptyView
    /\ batch_size_range = <<>>
    /\ round = 0
    /\ bi = 0
    /\ out = NoOut
    /\ l_hist = <<>>

\* the same, for the callers that never compare an array with []
IdleAug ==
    /\ IdleAugCall
    /\ np_legacy = TRUE

\* a hop_length that ignores the hop: the frame count of hop 1 whatever the hop
Frames_ignoring_hop(len, hop_length) == 1 + len

\* number of frames of librosa.feature.melspectrogram (center=True):
\* 1 + len(y) // hop_length; S.shape is (n_mels, frames)
Frames(len, hop_length) == 1 + len \div hop_length

\* the search loop stops at the latest when one hop spans the whole segment;
\* no hop beyond this cap is ever tried
HopCap == MaxSegLen + MaxHop + 2

\* a power value: 0.0, or 10^e
PwZero == [zero |-> TRUE, e |-> 0]

Pw(x) == [zero |-> FALSE, e |-> x]

PowLevels == {PwZero, Pw(-12), Pw(-3), Pw(0)}

\* the mel power spectrograms tried for a segment, w rows (mel bands) of h
\* columns (frames): row 1 carries any profile, the other rows the same
\* profile or silence; a segment of zeros has power 0.0 everywhere
PowerSpectrograms(w, h, all_zero) ==
    IF all_zero THEN {[m \in 1..w |-> [k \in 1..h |-> PwZero]]}
    ELSE {[m \in 1..w |-> [k \in 1..h |->
              IF m = 1 \/ ~quiet THEN col[k] ELSE PwZero]] :
            col \in [1..h -> PowLevels], quiet \in BOOLEAN}

\* 10 * log10(max(amin, p)) with librosa's amin = 1e-10
DbOf(p) == IF p.zero \/ p.e < -10 THEN -100 ELSE 10 * p.e

Entries(M) == {M[m][k] : m \in 1..Len(M), k \in 1..Len(M[1])}

\* librosa.power_to_db(S, ref=np.max), line 128: decibels relative to the
\* largest power, then clipped at top_db = 80 below the largest value
power_to_db(P) ==
    LET ref == MaxOf({DbOf(p) : p \in Entries(P)})
        log_spec == [m \in 1..Len(P) |-> [k \in 1..Len(P[1]) |-> DbOf(P[m][k]) - ref]]
        floor == MaxOf(Entries(log_spec)) - 80
    IN  [m \in 1..Len(P) |-> [k \in 1..Len(P[1]) |->
            IF log_spec[m][k] < floor THEN floor ELSE log_spec[m][k]]]

\* line 130: (S - S.min()) / (S.max() - S.min()); 0/0 is NaN
MinMaxScale(M) ==
    LET lo == MinOf(Entries(M))
        hi == MaxOf(Entries(M))
    IN  [m \in 1..Len(M) |-> [k \in 1..Len(M[1]) |->
            FDiv(Flt(M[m][k] - lo), Flt(hi - lo))]]

\* a padding that puts all the zero columns in front
PadSquare_front(M, w, h) ==
    IF h < w
    THEN [m \in 1..w |-> [k \in 1..w |->
            IF k > (w - h) THEN M[m][k - (w - h)] ELSE Flt(0)]]
    ELSE M

\* lines 132..137: img_zer = zeros((w, w)); img_zer[:, l: l+h] = img
PadSquare(M, w, h) ==
    IF h < w
    THEN LET need == w - h
             l == need \div 2
         IN  [m \in 1..w |-> [k \in 1..w |->
                IF k > l /\ k <= l + h THEN M[m][k - l] ELSE Flt(0)]]
    ELSE M

\* lines 139..140: np.expand_dims(img, -1), then np.expand_dims(img, 0)
ExpandDims(M) == [shape |-> <<1, Len(M), Len(M[1]), 1>>, px |-> M]

renderRest == UNCHANGED <<current_window, n_mels>>

\* lines 121..123: the first mel spectrogram and its shape
RenderBegin ==
    /\ rpc = "call"
    /\ wh' = <<n_mels, Frames(current_window.len, hop)>>
    /\ rpc' = "loop"
    /\ renderRest
    /\ UNCHANGED <<hop, S, img>>
    /\ UNCHANGED nonRenVars

\* lines 124..127: while h > w: hop += 2 and recompute
HopStep ==
    /\ rpc = "loop"
    /\ wh[2] > wh[1]
    /\ hop < HopCap
    /\ hop' = hop + 2
    /\ wh' = <<n_mels, Frames(current_window.len, hop')>>
    /\ renderRest
    /\ UNCHANGED <<rpc, S, img>>
    /\ UNCHANGED nonRenVars

\* lines 128..141: decibels, scaling, padding, the two added axes
RenderFinish ==
    /\ rpc = "loop"
    /\ ~(wh[2] > wh[1])
    /\ \E P \in PowerSpectrograms(wh[1], wh[2], current_window.all_zero) :
         /\ S' = power_to_db(P)
         /\ img' = ExpandDims(PadSquare(MinMaxScale(S'), Len(S'), Len(S'[1])))
    /\ rpc' = "returned"
    /\ renderRest
    /\ UNCHANGED <<hop, wh>>
    /\ UNCHANGED nonRenVars

InitRender ==
    /\ IdleAug
    /\ IdleMetrics
    /\ IdleSegments
    /\ IdleTrain
    /\ IdleStft
    /\ \E len \in 1..MaxSegLen, z \in BOOLEAN :
         current_window = [len |-> len, all_zero |-> z]
    /\ n_mels \in 1..MaxMels
    /\ hop \in 1..MaxHop
    /\ rpc = "call"
    /\ wh = <<0, 0>>
    /\ S = <<>>
    /\ img = [shape |-> <<>>, px |-> <<>>]

NextRender ==
    \/ RenderBegin
    \/ HopStep
    \/ RenderFinish

SpecRender == InitRender /\ [][NextRender]_vars

\* the loop is sequential code: a step that can be taken is taken
SpecRenderFair == SpecRender /\ WF_vars(NextRender)

\* ======================================================== claims C4 .. C6
\* C4: for a segment of non-zero length and n_mels >= 1 the array returned has
\* shape (1, n_mels, n_mels, 1); when the frame count h at loop exit is below
\* n_mels, floor((w - h) / 2) zero columns come before the h original columns
\* and the rest after, the original values kept in order.
C4_SquareOutput ==
    rpc = "returned" =>
      LET w == n_mels
          h == wh[2]
          l == (w - h) \div 2
          scaled == MinMaxScale(S)
      IN  /\ h <= w
          /\ Len(S) = w
          /\ \A m \in 1..w : Len(S[m]) = h
          /\ img.shape = <<1, w, w, 1>>
          /\ Len(img.px) = w
          /\ \A m \in 1..w :
               /\ Len(img.px[m]) = w
               /\ \A k \in 1..w :
                    img.px[m][k] = IF k > l /\ k <= l + h
                                   THEN scaled[m][k - l]
                                   ELSE <<0, 1>>

\* a returned image that was padded by an odd number of columns and holds a
\* value that is neither padding nor undefined
C4_Witness ==
    /\ rpc = "returned"
    /\ wh[2] < n_mels
    /\ (n_mels - wh[2]) % 2 = 1
    /\ \E m \in 1..Len(img.px) : \E k \in 1..Len(img.px[m]) :
         /\ ~FIsNaN(img.px[m][k])
         /\ ~FEq(img.px[m][k], Flt(0))

\* the decibel spectrogram is constant (min == max)
Degenerate == \A a, b \in Entries(S) : a = b

\* C5: for a segment whose decibel-scaled spectrogram is constant (e.g. a
\* segment of zeros) the renderer returns an image whose values all lie in
\* [0,1], none undefined.
C5_DegenerateIsDefined ==
    (rpc = "returned" /\ Degenerate) =>
      \A m \in 1..Len(img.px) : \A k \in 1..Len(img.px[m]) : FInUnit(img.px[m][k])

\* C6: the hop search loop terminates, the frame count never increases from
\* one iteration to the next, and at loop exit h <= w (no hop beyond the cap
\* is needed for that).
C6_HopSearchTerminates ==
    /\ [][(rpc = "loop" /\ rpc' = "loop") => wh'[2] <= wh[2]]_vars
    /\ [](rpc = "returned" => wh[2] <= wh[1])
    /\ []((rpc = "loop" /\ wh[2] > wh[1]) => hop < HopCap)
    /\ <>(rpc = "returned")

\* the loop has exited after at least two iterations
C6_Witness ==
    /\ rpc = "returned"
    /\ hop > MaxHop + 2
    /\ wh[2] <= wh[1]

\* ============================================================== metrics
\* tf.math.argmax(v, axis=-1): the (0-based) index of the first largest entry
ArgMax(v) ==
    (CHOOSE j \in 1..Len(v) :
        /\ \A m \in 1..Len(v) : v[m] <= v[j]
        /\ \A m \in 1..(j - 1) : v[m] < v[j]) - 1

ArgMaxAll(vs) == [k \in 1..Len(vs) |-> ArgMax(vs[k])]

\* tf.where(cond).shape for a rank-1 cond: (number of true entries, 1)
WhereShape(cond) == <<Cardinality({k \in 1..Len(cond) : cond[k]}), 1>>

\* tf.squeeze(t).shape: every dimension of size 1 removed
SqueezeShape(shape) == SelectSeq(shape, LAMBDA dim : dim # 1)

\* lines 178..184 and 200..206: the correct predictions among the samples
\* whose true class (is not / is) 0
Numerator(t, p, positive) ==
    Cardinality({k \in 1..Len(t) : (t[k] # 0) = positive /\ t[k] = p[k]})

Returned(v) == [raised |-> "", val |-> v]

Raised(e) == [raised |-> e, val |-> <<0, 0>>]

\* lines 186..194 (sensitivity, positive) and 208..216 (specificity): the
\* early return needs an unknown static dimension, which an eager tensor
\* never has; test reads dimension 0 of the squeezed index tensor, the
\* default reads dimension 1 of the index tensor, which is its rank 1
Ratio(t, p, positive, tst) ==
    LET numerator == Numerator(t, p, positive)
        where_shape == WhereShape([k \in 1..Len(t) |-> (t[k] # 0) = positive])
        squeezed == SqueezeShape(where_shape)
    IN  IF tst
        THEN IF Len(squeezed) = 0
             THEN Raised("IndexError")
             ELSE Returned(FDiv(Flt(numerator), Flt(squeezed[1])))
        ELSE IF where_shape[2] # 0
             THEN Returned(FDiv(Flt(numerator), Flt(where_shape[2])))
             ELSE Returned(FDiv(Flt(numerator), Flt(0)))

\* lines 174..194
sensitivity(yt, yp, tst) == Ratio(ArgMaxAll(yt), ArgMaxAll(yp), TRUE, tst)

\* lines 196..216
specificity(yt, yp, tst) == Ratio(ArgMaxAll(yt), ArgMaxAll(yp), FALSE, tst)

\* lines 218..221
average_score(yt, yp, tst) ==
    LET se == sensitivity(yt, yp, tst)
        sp == specificity(yt, yp, tst)
    IN  IF se.raised # "" THEN se
        ELSE IF sp.raised # "" THEN sp
        ELSE Returned(FDiv(FAdd(se.val, sp.val), Flt(2)))

\* x == 0. of a float: false of NaN
FIsZero(a) == a[2] # 0 /\ a[1] = 0

\* lines 223..228
harmonic_mean(yt, yp, tst) ==
    LET se == sensitivity(yt, yp, tst)
        sp == specificity(yt, yp, tst)
    IN  IF se.raised # "" THEN se
        ELSE IF sp.raised # "" THEN sp
        ELSE IF FIsZero(FAdd(se.val, sp.val)) THEN Returned(Flt(0))
        ELSE Returned(FDiv(FMul(FMul(Flt(2), se.val), sp.val), FAdd(se.val, sp.val)))

metricRest == UNCHANGED <<y_true, y_pred, test>>

CallSensitivity ==
    /\ metric = ""
    /\ metric' = "sensitivity"
    /\ result' = sensitivity(y_true, y_pred, test)
    /\ metricRest
    /\ UNCHANGED nonMetVars

CallSpecificity ==
    /\ metric = ""
    /\ metric' = "specificity"
    /\ result' = specificity(y_true, y_pred, test)
    /\ metricRest
    /\ UNCHANGED nonMetVars

CallAverageScore ==
    /\ metric = ""
    /\ metric' = "average_score"
    /\ result' = average_score(y_true, y_pred, test)
    /\ metricRest
    /\ UNCHANGED nonMetVars

CallHarmonicMean ==
    /\ metric = ""
    /\ metric' = "harmonic_mean"
    /\ result' = harmonic_mean(y_true, y_pred, test)
    /\ metricRest
    /\ UNCHANGED nonMetVars

\* the classes the samples of a metric call are drawn from
MetricClasses == 0..2

\* a score vector with its largest entry at class c (in tenths)
ScoresFor(c) == [j \in 1..num |-> IF j = c + 1 THEN 7 ELSE 1]

\* a label vector of class c as the metrics receive it
OneHotInt(c) == [j \in 1..num |-> IF j = c + 1 THEN 1 ELSE 0]

InitMetrics ==
    /\ IdleAug
    /\ IdleRender
    /\ IdleSegments
    /\ IdleTrain
    /\ IdleStft
    /\ \E n \in 1..MaxSamples :
         \E t \in [1..n -> MetricClasses], p \in [1..n -> MetricClasses] :
           /\ y_true = [k \in 1..n |-> OneHotInt(t[k])]
           /\ y_pred = [k \in 1..n |-> ScoresFor(p[k])]
    /\ test \in BOOLEAN
    /\ metric = ""
    /\ result = [raised |-> "", val |-> <<0, 1>>]

NextMetrics ==
    \/ CallSensitivity
    \/ CallSpecificity
    \/ CallAverageScore
    \/ CallHarmonicMean

SpecMetrics == InitMetrics /\ [][NextMetrics]_vars

\* ======================================================== claims C7 .. C8
TrueClass(k) == CHOOSE c \in 0..(num - 1) : y_true[k][c + 1] = 1

PredClass(k) == CHOOSE c \in 0..(num - 1) : \A j \in 1..num : y_pred[k][j] <= y_pred[k][c + 1]

Abnormal == {k \in 1..Len(y_true) : TrueClass(k) # 0}

Normal == {k \in 1..Len(y_true) : TrueClass(k) = 0}

Hits(subset) == Cardinality({k \in subset : PredClass(k) = TrueClass(k)})

\* the value returned is hits / size of the subset
IsRatioOver(subset) ==
    /\ result.raised = ""
    /\ ~FIsNaN(result.val)
    /\ FEq(result.val, <<Hits(subset), Cardinality(subset)>>)

\* C7: for non-empty inputs and both values of test, sensitivity returns the
\* fraction of correctly predicted samples among those whose true class is
\* non-zero, specificity the same among those whose true class is 0.
C7_MetricsAreRatios ==
    /\ (metric = "sensitivity" /\ Abnormal # {}) => IsRatioOver(Abnormal)
    /\ (metric = "specificity" /\ Normal # {}) => IsRatioOver(Normal)

\* the value returned is defined and equals 0
ReturnsZero == result.raised = "" /\ FIsZero(result.val)

IsDefined == result.raised = "" /\ ~FIsNaN(result.val)

\* C8: with an empty or one-member true-class subset the four metrics neither
\* raise nor return 0/0; sensitivity is 0 without abnormal samples,
\* specificity is 0 without normal samples, for both values of test.
C8_MetricsTolerateSmallSubsets ==
    /\ (metric = "sensitivity" /\ Cardinality(Abnormal) <= 1) => IsDefined
    /\ (metric = "specificity" /\ Cardinality(Normal) <= 1) => IsDefined
    /\ (metric \in {"average_score", "harmonic_mean"}
          /\ (Cardinality(Abnormal) <= 1 \/ Cardinality(Normal) <= 1)) => IsDefined
    /\ (metric = "sensitivity" /\ Abnormal = {}) => ReturnsZero
    /\ (metric = "specificity" /\ Normal = {}) => ReturnsZero

\* ======================================================= get_sound_samples
\* int(x) of a float x >= 0
IntOf(x) == x[1] \div x[2]

MinInt(a, b) == IF a < b THEN a ELSE b

\* lines 20..24
slice_data(start, end, raw_data, sample_rate) ==
    LET max_ind == Len(raw_data)
        start_ind == MinInt(IntOf(FMul(start, Flt(sample_rate))), max_ind)
        end_ind == MinInt(IntOf(FMul(end, Flt(sample_rate))), max_ind)
    IN  PySlice(raw_data, start_ind, end_ind)

\* a labelling that takes the wheeze flag for the crackle flag
get_label_swapped(crackle, wheeze) ==
    IF crackle = 0 /\ wheeze = 0 THEN 0
    ELSE IF crackle = 1 /\ wheeze = 0 THEN 2
    ELSE IF crackle = 0 /\ wheeze = 1 THEN 1
    ELSE 3

\* lines 27..35
get_label(crackle, wheeze) ==
    IF crackle = 0 /\ wheeze = 0 THEN 0
    ELSE IF crackle = 1 /\ wheeze = 0 THEN 1
    ELSE IF crackle = 0 /\ wheeze = 1 THEN 2
    ELSE 3

\* lines 57..67: the loop over the rows from row r on
RECURSIVE get_sound_samples(_, _, _, _, _)
get_sound_samples(ld, ann, raw, rate, r) ==
    IF r > Len(ann) THEN ld
    ELSE LET row == ann[r]
             audio_chunk == slice_data(row[1], row[2], raw, rate)
             label_name == get_label(row[3], row[4])
         IN  get_sound_samples([ld EXCEPT ![label_name] = Append(@, audio_chunk)],
                               ann, raw, rate, r + 1)

\* the start and end times (in seconds) an annotation may carry
Times == {<<1, 2>>, <<1, 1>>, <<2, 1>>}

AnnotationRows == {<<s, e, c, w>> : s \in Times, e \in Times, c \in {0, 1}, w \in {0, 1}}

\* the recording of n samples; sample k (0-based) has the value k
Recording(n) == [k \in 1..n |-> k - 1]

RecLens == {0, 4, MaxRecLen}

\* one call, lines 49..67
GetSoundSamples ==
    /\ calls = 0
    /\ \E n \in RecLens, m \in 0..MaxAnn :
         \E ann \in [1..m -> AnnotationRows] :
           /\ data' = Recording(n)
           /\ annotations' = ann
           /\ labels_before' = labels_data
           /\ labels_data' = get_sound_samples(labels_data, ann, data', Rate, 1)
    /\ calls' = 1
    /\ UNCHANGED nonSegVars

\* labels_data of train.py line 47, or the dict after an earlier recording
InitSegments ==
    /\ IdleAug
    /\ IdleRender
    /\ IdleMetrics
    /\ IdleTrain
    /\ IdleStft
    /\ \/ labels_data = [c \in 0..3 |-> <<>>]
       \/ labels_data = [c \in 0..3 |-> <<<<c, c>>>>]
    /\ labels_before = labels_data
    /\ annotations = <<>>
    /\ data = <<>>
    /\ calls = 0

NextSegments == GetSoundSamples

SpecSegments == InitSegments /\ [][NextSegments]_vars

\* ================================================================ claim C9
ExpectedLabel(row) == row[3] + 2 * row[4]

\* floor(t * rate) clamped to the recording
ClampedIndex(t) ==
    LET f == (t[1] * Rate) \div t[2]
    IN  IF f > Len(data) THEN Len(data) ELSE f

ExpectedChunk(row) ==
    LET a == ClampedIndex(row[1])
        b == ClampedIndex(row[2])
    IN  IF a >= b THEN <<>> ELSE [k \in 1..(b - a) |-> a + k - 1]

RowsOf(c) == SelectSeq(annotations, LAMBDA row : ExpectedLabel(row) = c)

RECURSIVE TotalStored(_, _)
TotalStored(ld, c) == IF c < 0 THEN 0 ELSE Len(ld[c]) + TotalStored(ld, c - 1)

\* C9: a call appends, in annotation order, one chunk per annotation, the
\* chunk samples[min(floor(start*rate), len) : min(floor(end*rate), len)]
\* (empty when start_idx >= end_idx), to the bucket (0,0)->0, (1,0)->1,
\* (0,1)->2, (1,1)->3; earlier entries stay in place and the number of stored
\* segments grows by the number of annotations.
C9_OneChunkPerAnnotation ==
    calls = 1 =>
      /\ \A c \in 0..3 :
           labels_data[c] =
             labels_before[c] \o [j \in 1..Len(RowsOf(c)) |-> ExpectedChunk(RowsOf(c)[j])]
      /\ TotalStored(labels_data, 3) = TotalStored(labels_before, 3) + Len(annotations)

\* a call on a partly filled dict with the row (1.0, 2.0, 1, 0), whose chunk
\* is samples[Rate : 2 * Rate], and a row whose chunk is empty
C9_Witness ==
    /\ calls = 1
    /\ labels_before[1] # <<>>
    /\ Len(data) > 2 * Rate
    /\ annotations = <<<<<<1, 1>>, <<2, 1>>, 1, 0>>, <<<<2, 1>>, <<1, 2>>, 0, 1>>>>
    /\ labels_data[1] = labels_before[1] \o <<[k \in 1..Rate |-> Rate + k - 1]>>
    /\ labels_data[2] = labels_before[2] \o <<<<>>>>

\* ================================================================== train
RawFiles == <<"test_data.pkz", "test_label.pkz", "train_data.pkz", "train_label.pkz">>

ImageFiles == <<"image_test_data.pkz", "image_train_data.pkz">>

\* os.path.join(dir, name), kept as its two components
PathJoin(dir, name) == <<dir, name>>

\* os.path.exists(path)
PathExists(path, present) == path[2] \in present

\* bool(path) of a str: true of every non-empty string
Truthy(path) == path[1] # "" \/ path[2] # ""

\* load_df on each file of names in turn, lines 70..73: the files opened, and
\* whether the last open raised FileNotFoundError
RECURSIVE LoadAll(_, _, _)
LoadAll(names, present, k) ==
    IF k > Len(names) THEN [opened |-> <<>>, failed |-> FALSE]
    ELSE IF names[k] \notin present THEN [opened |-> <<names[k]>>, failed |-> TRUE]
    ELSE LET rest == LoadAll(names, present, k + 1)
         IN  [opened |-> <<names[k]>> \o rest.opened, failed |-> rest.failed]

\* save_df of each named file, lines 75..79: the file now holds that many entries
SaveAll(present, names, lens) ==
    [f \in DOMAIN present \cup Range(names) |->
        IF \E k \in 1..Len(names) : names[k] = f
        THEN lens[CHOOSE k \in 1..Len(names) : names[k] = f]
        ELSE present[f]]

\* n_test of train_test_split(test_size=0.2): ceil(0.2 * n); the float
\* product rounds as the exact one for the n tried here (n < 15)
TestSize(n) == (n + 4) \div 5

Rows(n) == [k \in 1..n |-> 0]

\* x = part, or x = np.concatenate((x, part)), lines 65..77: the first part is
\* kept as the list train_test_split returned
Collect(acc, n, legacy) ==
    IF EqEmptyList(acc, legacy) = "True"
    THEN [kind |-> "list", rows |-> Rows(n)]
    ELSE [kind |-> "ndarray", rows |-> acc.rows \o Rows(n)]

\* the loop of lines 58..77 from class index c on (1-based): the exception and
\* its line, or the lengths of the test and the train pools.  A class of fewer
\* than two segments leaves train_test_split without a train set (line 63);
\* all segments are taken to have one common length of two or more samples
RECURSIVE Categorise(_, _, _, _, _)
Categorise(counts, legacy, c, test_acc, train_acc) ==
    IF c > Len(counts)
    THEN [raised |-> "", line |-> 0,
          test |-> Len(test_acc.rows), train |-> Len(train_acc.rows)]
    ELSE LET n == counts[c]
             n_test == TestSize(n)
             n_train == n - n_test
         IN  IF n_train = 0
             THEN [raised |-> "ValueError", line |-> 63, test |-> 0, train |-> 0]
             ELSE IF EqEmptyList(train_acc, legacy) = "ValueError"
             THEN [raised |-> "ValueError", line |-> 65, test |-> 0, train |-> 0]
             ELSE IF EqEmptyList(test_acc, legacy) = "ValueError"
             THEN [raised |-> "ValueError", line |-> 72, test |-> 0, train |-> 0]
             ELSE Categorise(counts, legacy, c + 1,
                             Collect(test_acc, n_test, legacy),
                             Collect(train_acc, n_train, legacy))

\* lines 32..83: the four raw pools, from the cache or from the data set
TrainRawPools ==
    /\ tpc = "start"
    /\ IF PathExists(PathJoin(save_data_dir, "test_data.pkz"), DOMAIN files)
       THEN LET got == LoadAll(RawFiles, DOMAIN files, 1)
            IN  /\ loads' = loads \o got.opened
                /\ IF got.failed
                   THEN /\ tpc' = "raised"
                        /\ terr' = "FileNotFoundError"
                        /\ tline' = 32 + Len(got.opened)
                        /\ UNCHANGED pools
                   ELSE /\ tpc' = "images"
                        /\ pools' = [k \in 1..Len(RawFiles) |-> files[RawFiles[k]]]
                        /\ UNCHANGED <<terr, tline>>
                /\ UNCHANGED files
       ELSE IF ~data_dir.exists
       THEN /\ tpc' = "raised"
            /\ terr' = "FileNotFoundError"
            /\ tline' = 40
            /\ UNCHANGED <<pools, files, loads>>
       ELSE LET got == Categorise(data_dir.counts, np_legacy, 1, EmptyList, EmptyList)
            IN  IF got.raised # ""
                THEN /\ tpc' = "raised"
                     /\ terr' = got.raised
                     /\ tline' = got.line
                     /\ UNCHANGED <<pools, files, loads>>
                ELSE /\ pools' = <<got.test, got.test, got.train, got.train>>
                     /\ files' = SaveAll(files, RawFiles, pools')
                     /\ tpc' = "images"
                     /\ UNCHANGED <<loads, terr, tline>>
    /\ UNCHANGED <<save_data_dir, data_dir, image_pools, rendered>>
    /\ UNCHANGED nonTrnVars

\* lines 85..115: the two image pools; the condition of line 85 is the path
\* string itself
TrainImagePools ==
    /\ tpc = "images"
    /\ IF Truthy(PathJoin(save_data_dir, "image_test_data.pkz"))
       THEN LET got == LoadAll(ImageFiles, DOMAIN files, 1)
            IN  /\ loads' = loads \o got.opened
                /\ IF got.failed
                   THEN /\ tpc' = "raised"
                        /\ terr' = "FileNotFoundError"
                        /\ tline' = 85 + Len(got.opened)
                        /\ UNCHANGED image_pools
                   ELSE /\ tpc' = "fit"
                        /\ image_pools' = [k \in 1..Len(ImageFiles) |-> files[ImageFiles[k]]]
                        /\ UNCHANGED <<terr, tline>>
                /\ UNCHANGED <<files, rendered>>
       ELSE /\ rendered' = pools[1] + pools[3]
            /\ image_pools' = <<pools[1], pools[3]>>
            /\ files' = SaveAll(files, ImageFiles, image_pools')
            /\ tpc' = "fit"
            /\ UNCHANGED <<loads, terr, tline>>
    /\ UNCHANGED <<save_data_dir, data_dir, pools>>
    /\ UNCHANGED nonTrnVars

\* the lengths of x and y handed to model.fit, line 120
FitArgs == <<image_pools[2], pools[4]>>

\* the lengths of x and y handed to model.evaluate, line 128
EvaluateArgs == <<image_pools[1], pools[2]>>

\* lines 117..133: fit and evaluate on the image pools and the label pools
TrainFit ==
    /\ tpc = "fit"
    /\ tpc' = "done"
    /\ UNCHANGED <<save_data_dir, files, data_dir, pools, image_pools, loads, rendered,
                   terr, tline>>
    /\ UNCHANGED nonTrnVars

\* every cache directory: any of the files, each holding any number of entries
CacheDirs(names) == UNION {[present -> 1..MaxSegs] : present \in SUBSET names}

\* the data sets tried: a missing directory, or recordings with any number of
\* segments of each class
DataDirs ==
    {[exists |-> FALSE, counts |-> <<0, 0, 0, 0>>]} \cup
    {[exists |-> TRUE, counts |-> c] : c \in [1..4 -> 0..MaxPerClass]}

\* train starts with raw pools in the cache (the data set is then not read), or
\* without them and with any data set
InitTrain ==
    /\ IdleAugCall
    /\ IdleRender
    /\ IdleMetrics
    /\ IdleSegments
    /\ IdleStft
    /\ tpc = "start"
    /\ save_data_dir \in {"", "cache"}
    /\ \/ /\ files \in CacheDirs(Range(RawFiles) \cup Range(ImageFiles))
          /\ "test_data.pkz" \in DOMAIN files
          /\ data_dir = [exists |-> FALSE, counts |-> <<0, 0, 0, 0>>]
          /\ np_legacy = TRUE
       \/ /\ files \in CacheDirs(Range(ImageFiles))
          /\ data_dir \in DataDirs
          /\ np_legacy \in BOOLEAN
    /\ pools = <<>>
    /\ image_pools = <<>>
    /\ loads = <<>>
    /\ rendered = 0
    /\ terr = ""
    /\ tline = 0

NextTrain ==
    \/ TrainRawPools
    \/ TrainImagePools
    \/ TrainFit

SpecTrain == InitTrain /\ [][NextTrain]_vars

\* =============================================================== claim C10
\* C10: the image pools are loaded from the cache only if the image-pool file
\* exists; when it is missing train renders every segment and never tries to
\* load it, so the training step is reached with image pools as long as the
\* label pools.
C10_ImageCacheMissRenders ==
    /\ \A k \in 1..Len(loads) :
         loads[k] \in Range(ImageFiles) => loads[k] \in DOMAIN files
    /\ tpc = "raised" => tline \notin 85..87
    /\ tpc \in {"fit", "done"} =>
         /\ "image_test_data.pkz" \in DOMAIN files
         /\ rendered > 0 => image_pools = <<pools[2], pools[4]>>

\* ============================================================ create_stft
\* number of frames of tf.signal.stft (pad_end=False) for a step >= 1:
\* max(0, 1 + (len - frame_length) // frame_step), floor division
FrameCount(len, fl, fs) ==
    LET n == 1 + (len - fl) \div fs
    IN  IF n < 0 THEN 0 ELSE n

\* number of frequency bins of tf.signal.stft: fft_length // 2 + 1
Bins(fft) == fft \div 2 + 1

\* what tf.signal.stft answers, as a frame count, -1 standing for an
\* exception: tf.signal.frame computes (len - frame_length) // frame_step on
\* int32 tensors, and an integer division by zero is an InvalidArgumentError.
\* The step is even from the start (the default is 100), so the search meets
\* 0 before any negative step
StftFrames(len, fl, fs) ==
    IF fs = 0 THEN -1 ELSE FrameCount(len, fl, fs)

\* the even steps up to n
EvenSteps(n) == {fs \in 1..n : fs % 2 = 0}

stftRest == UNCHANGED <<stft_window, frame_length, fft_length>>

\* lines 91..93: the first STFT and its shape (w frames, h bins)
StftBegin ==
    /\ spc = "call"
    /\ stft_calls' = Append(stft_calls, frame_step)
    /\ LET w == StftFrames(stft_window, frame_length, frame_step)
       IN  IF w < 0
           THEN /\ spc' = "raised"
                /\ UNCHANGED stft_wh
           ELSE /\ spc' = "loop"
                /\ stft_wh' = <<w, Bins(fft_length)>>
    /\ stftRest
    /\ UNCHANGED <<frame_step, stft_img>>
    /\ UNCHANGED nonStfVars

\* lines 94..97: while h > w: frame_step -= 2 and recompute
StftStep ==
    /\ spc = "loop"
    /\ stft_wh[2] > stft_wh[1]
    /\ frame_step' = frame_step - 2
    /\ stft_calls' = Append(stft_calls, frame_step')
    /\ LET w == StftFrames(stft_window, frame_length, frame_step')
       IN  IF w < 0
           THEN /\ spc' = "raised"
                /\ UNCHANGED stft_wh
           ELSE /\ stft_wh' = <<w, Bins(fft_length)>>
                /\ UNCHANGED spc
    /\ stftRest
    /\ UNCHANGED stft_img
    /\ UNCHANGED nonStfVars

\* the shape after lines 101..115: a spectrogram of w < h frames is padded to
\* (h, h), both axes are cut at fft_length // 2, two axes are added
StftImageShape(w, h, fft) ==
    LET rows == IF w < h THEN h ELSE w
        cut == fft \div 2
    IN  <<1, IF rows < cut THEN rows ELSE cut, IF h < cut THEN h ELSE cut, 1>>

\* lines 99..115: one step back, the final STFT, decibels, scaling, padding,
\* crop; np.max of a spectrogram without frames is a ValueError
StftFinish ==
    /\ spc = "loop"
    /\ ~(stft_wh[2] > stft_wh[1])
    /\ frame_step' = frame_step + 2
    /\ stft_calls' = Append(stft_calls, frame_step')
    /\ LET w == StftFrames(stft_window, frame_length, frame_step')
       IN  IF w < 0
           THEN /\ spc' = "raised"
                /\ UNCHANGED <<stft_wh, stft_img>>
           ELSE /\ stft_wh' = <<w, Bins(fft_length)>>
                /\ IF w = 0
                   THEN /\ spc' = "raised"
                        /\ UNCHANGED stft_img
                   ELSE /\ spc' = "returned"
                        /\ stft_img' = StftImageShape(w, Bins(fft_length), fft_length)
    /\ stftRest
    /\ UNCHANGED nonStfVars

InitStft ==
    /\ IdleAug
    /\ IdleRender
    /\ IdleMetrics
    /\ IdleSegments
    /\ IdleTrain
    /\ stft_window \in 1..MaxStftLen
    /\ frame_length \in 1..MaxFrameLength
    /\ frame_step \in EvenSteps(MaxFrameStep)
    /\ fft_length \in frame_length..MaxFftLength
    /\ spc = "call"
    /\ stft_wh = <<0, 0>>
    /\ stft_calls = <<>>
    /\ stft_img = <<>>

NextStft ==
    \/ StftBegin
    \/ StftStep
    \/ StftFinish

SpecStft == InitStft /\ [][NextStft]_vars

\* the loop is sequential code: a step that can be taken is taken
SpecStftFair == SpecStft /\ WF_vars(NextStft)

\* =============================================================== claim C11
\* C11: for every segment of non-zero length, segments shorter than
\* frame_length included, the frame_step search of create_stft passes a
\* frame_step >= 1 to every STFT call, no call fails, and the function returns
\* after finitely many iterations.
C11_FrameStepSearchTerminates ==
    /\ [](\A k \in 1..Len(stft_calls) : stft_calls[k] >= 1)
    /\ [](spc # "raised")
    /\ <>(spc = "returned")

\* ------------------------------------ two_permutation_data on larger pools
\* the entries at the odd positions of s followed by those at the even ones
Riffle(s) ==
    LET half == (Len(s) + 1) \div 2
    IN  [k \in 1..Len(s) |-> IF k <= half THEN s[2 * k - 1] ELSE s[2 * (k - half)]]

\* pools stored class after class, and the same pools with the classes
\* interleaved
AlignPools(n) == SortedClassSeqs(n) \cup {Riffle(cls) : cls \in SortedClassSeqs(n)}

InitAlign ==
    /\ IdleRender
    /\ IdleMetrics
    /\ IdleSegments
    /\ IdleTrain
    /\ IdleStft
    /\ entry = "two_permutation_data"
    /\ \E cls \in AlignPools(MaxAlignPool) : ds = PoolOf(cls)
    /\ have_normal \in BOOLEAN
    /\ np_legacy \in BOOLEAN
    /\ bpc = "call"
    /\ err = ""
    /\ label_idx_1 = <<>>
    /\ label_idx_2 = <<>>
    /\ min_ = 0
    /\ vi = 0
    /\ ds_one = EmptyView
    /\ ds_two = EmptyView
    /\ batch_size_range = <<>>
    /\ round = 0
    /\ bi = 0
    /\ out = NoOut
    /\ l_hist = <<>>

SpecAlign == InitAlign /\ [][NextBalance]_vars

\* =============================================================== claim C12
\* the b-th participating class in ascending order (b from 1)
AscendingClass(b) ==
    CHOOSE c \in Participating : Cardinality({d \in Participating : d < c}) = b - 1

\* the class whose block holds position p (from 1) of a view with key order keys
BlockClass(keys, p) == keys[(p - 1) \div MinCount + 1]

\* every position of the view holds the three entries of one pool index, and
\* the class of that index is the class of the block the position lies in
ViewAligned(view, keys) ==
    /\ Len(view.data_1.rows) = Len(view.labels.rows)
    /\ Len(view.data_2.rows) = Len(view.labels.rows)
    /\ Len(view.labels.rows) = MinCount * Len(keys)
    /\ \A p \in 1..Len(view.labels.rows) :
         \E idx \in 0..(Len(ds.label) - 1) :
           /\ view.data_1.rows[p] = ds.data_1[idx + 1]
           /\ view.data_2.rows[p] = ds.data_2[idx + 1]
           /\ view.labels.rows[p] = ds.label[idx + 1]
           /\ SampleClass(idx) = BlockClass(keys, p)

\* C12: in each view two_permutation_data returns, data_1[k], data_2[k] and
\* label[k] are the entries of one index of the input pool, whose class is the
\* class of the block k lies in (view 1: blocks of min_count in ascending class
\* order, view 2: blocks of min_count in the shuffled key order); the input
\* pool is never modified.
C12_ViewComponentsAligned ==
    /\ [](bpc = "returned" =>
            /\ ViewAligned(ds_one, [b \in 1..Cardinality(Participating) |-> AscendingClass(b)])
            /\ ViewAligned(ds_two, [b \in 1..Len(label_idx_2) |-> label_idx_2[b].key]))
    /\ [][ds' = ds]_vars

\* two_permutation_data returned views with blocks of two or more samples, from
\* a pool whose classes are interleaved, view 2 in another class order than
\* view 1 and a block that does not follow the order of the pool
C12_Witness ==
    /\ bpc = "returned"
    /\ entry = "two_permutation_data"
    /\ MinCount >= 2
    /\ \E k \in 0..(Len(ds.label) - 2) : SampleClass(k) > SampleClass(k + 1)
    /\ \E b \in 1..Len(label_idx_2) : label_idx_2[b].key # AscendingClass(b)
    /\ \E p \in 1..(Len(ds_one.data_1.rows) - 1) :
         /\ ds_one.labels.rows[p] = ds_one.labels.rows[p + 1]
         /\ ds_one.data_1.rows[p][1] > ds_one.data_1.rows[p + 1][1]

====
